---- MODULE Spec2Model ----
(***************************************************************************)
(* A model of the hand-written lexical analyzer of src/lexer.py.           *)
(*                                                                         *)
(* The source text is a sequence of one-character strings.  A Lexer        *)
(* instance is the state: the cursor (pos, line, col), the token list, the *)
(* error list and the two tables.  A step of the model is the call of      *)
(* tokenize, one whole iteration of its driver loop, or its return.  The   *)
(* sub-scanners are operators that take the cursor and give back the       *)
(* cursor they leave, the token they return, the errors they append and    *)
(* whether they raised.                                                    *)
(***************************************************************************)
EXTENDS Integers, Sequences, FiniteSets, TLC

(***************************************************************************)
(* Bounds of the checked inputs.                                           *)
(***************************************************************************)
MaxMixLen == 3
MaxOpLen  == 4
MaxNumLen == 4
MaxLitLen == 3
MaxWordLen == 3
MaxCalls  == 2

(***************************************************************************)
(* Characters and character classes (str.isalpha, str.isdigit, ...).       *)
(***************************************************************************)
None == "<None>"

LowerLetters == {"a","b","c","d","e","f","g","h","i","j","k","l","m",
                 "n","o","p","q","r","s","t","u","v","w","x","y","z"}
UpperLetters == {"A","B","C","D","E","F","G","H","I","J","K","L","M",
                 "N","O","P","Q","R","S","T","U","V","W","X","Y","Z"}
Letters   == LowerLetters \cup UpperLetters
Digits    == {"0","1","2","3","4","5","6","7","8","9"}
OctDigits == {"0","1","2","3","4","5","6","7"}
HexDigits == Digits \cup {"a","b","c","d","e","f","A","B","C","D","E","F"}
AlNum     == Letters \cup Digits
IdChars   == AlNum \cup {"_"}
WS        == {" ", "\t", "\r", "\n"}

IsAlpha(ch) == ch \in Letters
IsDigit(ch) == ch \in Digits
IsAlNum(ch) == ch \in AlNum

LowerPairs ==
  { <<"A","a">>, <<"B","b">>, <<"C","c">>, <<"D","d">>, <<"E","e">>,
    <<"F","f">>, <<"G","g">>, <<"H","h">>, <<"I","i">>, <<"J","j">>,
    <<"K","k">>, <<"L","l">>, <<"M","m">>, <<"N","n">>, <<"O","o">>,
    <<"P","p">>, <<"Q","q">>, <<"R","r">>, <<"S","s">>, <<"T","t">>,
    <<"U","u">>, <<"V","v">>, <<"W","w">>, <<"X","x">>, <<"Y","y">>,
    <<"Z","z">> }

\* str.lower() of one character
LowerCh(ch) ==
  IF ch \in UpperLetters THEN (CHOOSE p \in LowerPairs : p[1] = ch)[2] ELSE ch

\* str.lower() of a string
Lower(s) == [i \in 1..Len(s) |-> LowerCh(s[i])]

(***************************************************************************)
(* The fixed tables of the lexer.                                          *)
(***************************************************************************)
KEYWORDS ==
  { <<"i","f">>, <<"t","h","e","n">>, <<"e","l","s","e">>,
    <<"b","e","g","i","n">>, <<"e","n","d">>, <<"i","n","t">>,
    <<"f","l","o","a","t">>, <<"c","h","a","r">>, <<"w","h","i","l","e">>,
    <<"d","o">>, <<"r","e","t","u","r","n">>, <<"f","o","r">>,
    <<"v","o","i","d">>, <<"b","r","e","a","k">>,
    <<"c","o","n","t","i","n","u","e">>, <<"s","w","i","t","c","h">>,
    <<"c","a","s","e">>, <<"d","e","f","a","u","l","t">>,
    <<"s","t","r","u","c","t">>, <<"c","o","n","s","t">>,
    <<"t","y","p","e","d","e","f">> }

SINGLE_OPS == {"+", "-", "*", "/", "%", "=", "&", "|", "^", "~", "!", "<", ">"}

DOUBLE_OPS ==
  { <<"+","+">>, <<"-","-">>, <<"+","=">>, <<"-","=">>, <<"*","=">>,
    <<"/","=">>, <<"%","=">>, <<"&","&">>, <<"|","|">>, <<"<","<">>,
    <<">",">">>, <<"&","=">>, <<"|","=">>, <<"^","=">>, <<"<","=">>,
    <<">","=">>, <<"<",">">>, <<"=","=">>, <<"!","=">>, <<"-",">">> }

TRIPLE_OPS == { <<"<","<","=">>, <<">",">","=">> }

DELIMITERS == {"(", ")", "[", "]", "{", "}", ";", "#", ",", ":", "."}

\* CODE, as the set of its (key, value) pairs
CodePairs ==
  { << <<"i","f">>, 1 >>, << <<"t","h","e","n">>, 2 >>,
    << <<"e","l","s","e">>, 3 >>, << <<"b","e","g","i","n">>, 4 >>,
    << <<"e","n","d">>, 5 >>, << <<"i","n","t">>, 6 >>,
    << <<"f","l","o","a","t">>, 7 >>, << <<"c","h","a","r">>, 8 >>,
    << <<"w","h","i","l","e">>, 9 >>, << <<"d","o">>, 10 >>,
    << <<"r","e","t","u","r","n">>, 11 >>, << <<"f","o","r">>, 12 >>,
    << <<"v","o","i","d">>, 13 >>, << <<"b","r","e","a","k">>, 14 >>,
    << <<"c","o","n","t","i","n","u","e">>, 15 >>,
    << <<"s","w","i","t","c","h">>, 16 >>, << <<"c","a","s","e">>, 17 >>,
    << <<"d","e","f","a","u","l","t">>, 18 >>,
    << <<"s","t","r","u","c","t">>, 19 >>, << <<"c","o","n","s","t">>, 20 >>,
    << <<"t","y","p","e","d","e","f">>, 21 >>,
    << <<"I","D">>, 50 >>, << <<"I","N","T">>, 51 >>,
    << <<"F","L","O","A","T">>, 52 >>, << <<"C","H","A","R">>, 53 >>,
    << <<"S","T","R","I","N","G">>, 54 >>, << <<"H","E","X">>, 55 >>,
    << <<"O","C","T">>, 56 >>,
    << <<"+">>, 60 >>, << <<"-">>, 61 >>, << <<"*">>, 62 >>, << <<"/">>, 63 >>,
    << <<"%">>, 64 >>, << <<"=">>, 65 >>, << <<"+","+">>, 66 >>,
    << <<"-","-">>, 67 >>, << <<"+","=">>, 68 >>, << <<"-","=">>, 69 >>,
    << <<"*","=">>, 70 >>, << <<"/","=">>, 71 >>, << <<"%","=">>, 72 >>,
    << <<"&">>, 80 >>, << <<"|">>, 81 >>, << <<"^">>, 82 >>, << <<"~">>, 83 >>,
    << <<"<","<">>, 84 >>, << <<">",">">>, 85 >>, << <<"&","=">>, 86 >>,
    << <<"|","=">>, 87 >>, << <<"^","=">>, 88 >>, << <<"<","<","=">>, 89 >>,
    << <<">",">","=">>, 90 >>,
    << <<"&","&">>, 100 >>, << <<"|","|">>, 101 >>, << <<"!">>, 102 >>,
    << <<"<">>, 110 >>, << <<">">>, 111 >>, << <<"<","=">>, 112 >>,
    << <<">","=">>, 113 >>, << <<"<",">">>, 114 >>, << <<"=","=">>, 115 >>,
    << <<"!","=">>, 116 >>,
    << <<"-",">">>, 120 >>,
    << <<"(">>, 130 >>, << <<")">>, 131 >>, << <<"[">>, 132 >>,
    << <<"]">>, 133 >>, << <<"{">>, 134 >>, << <<"}">>, 135 >>,
    << <<";">>, 136 >>, << <<"#">>, 137 >>, << <<",">>, 138 >>,
    << <<":">>, 139 >>, << <<".">>, 140 >> }

\* CODE[key]
CODE(key) == (CHOOSE p \in CodePairs : p[1] = key)[2]

\* the keys of ESCAPE_CHARS
ESCAPE_CHARS == {"n", "t", "r", "0", "\\", "'", "\"", "a", "b", "f", "v"}

\* Token(code, value, attr, line, col)
Token(code, value, attr, l, c) ==
  [code |-> code, value |-> value, attr |-> attr, line |-> l, col |-> c]

\* LexError(error_type, line, col, value, extra_info); extra_info is the
\* qualifier of the error, written here in English
LexError(type, l, c, value, extra) ==
  [error_type |-> type, line |-> l, col |-> c, value |-> value,
   extra_info |-> extra]

\* the attributes '-', f'SYM:{idx}' and f'CONST:{idx}'
NoAttr       == <<"-">>
SymAttr(idx) == <<"SYM", idx>>
ConstAttr(idx) == <<"CONST", idx>>

(***************************************************************************)
(* The state of a Lexer instance and of the call of tokenize.              *)
(***************************************************************************)
VARIABLES
  src,          \* self.src: the source text
  pos,          \* self.pos: index of the next character, from 0
  line,         \* self.line
  col,          \* self.col
  tokens,       \* self.tokens
  errors,       \* self.errors
  sym_table,    \* self.sym_table
  const_table,  \* self.const_table
  pc,           \* "init": constructed; "loop": at the head of the driver
                \* loop; "done": tokenize has returned; "raised": an
                \* exception has left tokenize
  calls,        \* the number of calls of tokenize so far
  iters         \* the number of iterations the driver loop of the current
                \* call has begun

vars == <<src, pos, line, col, tokens, errors, sym_table, const_table,
          pc, calls, iters>>

(***************************************************************************)
(* The cursor: _char, _peek, _advance.  A cursor is the triple of pos,     *)
(* line and col.                                                           *)
(***************************************************************************)
Cursor(p, l, c) == [pos |-> p, line |-> l, col |-> c]

\* _char() with the cursor at c
Char(c) == IF c.pos < Len(src) THEN src[c.pos + 1] ELSE None

\* _peek(offset) with the cursor at c
Peek(c, offset) ==
  LET idx == c.pos + offset
  IN  IF idx < Len(src) THEN src[idx + 1] ELSE None

\* _advance() without the reset of the column at a newline
AdvanceNoColumnReset(c) ==
  LET ch == Char(c)
  IN  IF ch # None
        THEN IF ch = "\n"
               THEN Cursor(c.pos + 1, c.line + 1, c.col + 1)
               ELSE Cursor(c.pos + 1, c.line, c.col + 1)
        ELSE c

\* _advance() without the test for the end of input
AdvancePastEnd(c) ==
  IF Char(c) = "\n"
    THEN Cursor(c.pos + 1, c.line + 1, 1)
    ELSE Cursor(c.pos + 1, c.line, c.col + 1)

\* the cursor after _advance()
Advance(c) ==
  LET ch == Char(c)
  IN  IF ch # None
        THEN IF ch = "\n"
               THEN Cursor(c.pos + 1, c.line + 1, 1)
               ELSE Cursor(c.pos + 1, c.line, c.col + 1)
        ELSE c

\* the loop  while self._char() and self._char() in S: val += self._advance()
RECURSIVE TakeWhile(_, _, _)
TakeWhile(c, S, val) ==
  IF Char(c) # None /\ Char(c) \in S
    THEN TakeWhile(Advance(c), S, Append(val, Char(c)))
    ELSE [cur |-> c, val |-> val]

(***************************************************************************)
(* The identifier table and the constant table.                            *)
(***************************************************************************)
Range(t) == {t[i] : i \in 1..Len(t)}

\* list.index(x), counted from 0
IndexOf(t, x) == (CHOOSE i \in 1..Len(t) :
                    t[i] = x /\ \A j \in 1..(i - 1) : t[j] # x) - 1

\* the table after an append without the membership test
AddEntryAlways(t, x) == Append(t, x)

\* the table after an insertion at its front
AddEntryAtFront(t, x) == IF x \notin Range(t) THEN <<x>> \o t ELSE t

\* the table after _add_sym(name) / _add_const(val)
AddEntry(t, x) == IF x \notin Range(t) THEN Append(t, x) ELSE t

\* _add_sym(name): the table it leaves and the index it returns
AddSym(t, name) ==
  [tab |-> AddEntry(t, name), idx |-> IndexOf(AddEntry(t, name), name)]

\* _add_const(val): the table it leaves and the index it returns
AddConst(t, val) ==
  [tab |-> AddEntry(t, val), idx |-> IndexOf(AddEntry(t, val), val)]

(***************************************************************************)
(* Whitespace and comments.                                                *)
(***************************************************************************)
\* _skip_ws: at the end of input _char() is None and the test
\* "None in ' \t\r\n'" raises TypeError
RECURSIVE SkipWs(_)
SkipWs(c) ==
  IF Char(c) = None
    THEN [cur |-> c, raised |-> TRUE]
    ELSE IF Char(c) \in WS
           THEN SkipWs(Advance(c))
           ELSE [cur |-> c, raised |-> FALSE]

\* the loop of a // comment: up to, not including, the newline
RECURSIVE LineCommentEnd(_)
LineCommentEnd(c) ==
  IF Char(c) # None /\ Char(c) # "\n" THEN LineCommentEnd(Advance(c)) ELSE c

\* the loop of a /* comment: the cursor it leaves and whether */ was found
RECURSIVE BlockCommentEnd(_)
BlockCommentEnd(c) ==
  IF Char(c) = None
    THEN [cur |-> c, closed |-> FALSE]
    ELSE IF Char(c) = "*" /\ Peek(c, 1) = "/"
           THEN [cur |-> Advance(Advance(c)), closed |-> TRUE]
           ELSE BlockCommentEnd(Advance(c))

\* _skip_comment recording the unclosed comment where the input ended
SkipCommentErrorAtEnd(c) ==
  IF Char(c) # "/"
    THEN [cur |-> c, skipped |-> FALSE, errs |-> <<>>]
    ELSE IF Peek(c, 1) = "/"
      THEN [cur |-> LineCommentEnd(c), skipped |-> TRUE, errs |-> <<>>]
      ELSE IF Peek(c, 1) = "*"
        THEN LET body == BlockCommentEnd(Advance(Advance(c)))
             IN  [cur |-> body.cur, skipped |-> TRUE,
                  errs |-> IF body.closed THEN <<>>
                           ELSE << LexError("UNCLOSED_COMMENT", body.cur.line,
                                            body.cur.col, <<"/", "*">>, "") >>]
        ELSE [cur |-> c, skipped |-> FALSE, errs |-> <<>>]

\* _skip_comment
SkipComment(c) ==
  IF Char(c) # "/"
    THEN [cur |-> c, skipped |-> FALSE, errs |-> <<>>]
    ELSE IF Peek(c, 1) = "/"
      THEN [cur |-> LineCommentEnd(c), skipped |-> TRUE, errs |-> <<>>]
      ELSE IF Peek(c, 1) = "*"
        THEN LET body == BlockCommentEnd(Advance(Advance(c)))
             IN  [cur |-> body.cur, skipped |-> TRUE,
                  errs |-> IF body.closed THEN <<>>
                           ELSE << LexError("UNCLOSED_COMMENT", c.line, c.col,
                                            <<"/", "*">>, "") >>]
        ELSE [cur |-> c, skipped |-> FALSE, errs |-> <<>>]

(***************************************************************************)
(* Identifiers and keywords.                                               *)
(***************************************************************************)
\* _scan_id matching the keywords without lower-casing the run
ScanIdCaseSensitive(c, syms) ==
  LET run == TakeWhile(c, IdChars, <<>>)
      val == run.val
      add == AddSym(syms, val)
  IN  IF val \in KEYWORDS
        THEN [cur |-> run.cur, tab |-> syms, errs |-> <<>>, raised |-> FALSE,
              toks |-> << Token(CODE(val), val, NoAttr, c.line, c.col) >>]
        ELSE [cur |-> run.cur, tab |-> add.tab, errs |-> <<>>, raised |-> FALSE,
              toks |-> << Token(CODE(<<"I","D">>), val, SymAttr(add.idx),
                                c.line, c.col) >>]

\* _scan_id: always returns a token
ScanId(c, syms) ==
  LET run == TakeWhile(c, IdChars, <<>>)
      val == run.val
      add == AddSym(syms, val)
  IN  IF Lower(val) \in KEYWORDS
        THEN [cur |-> run.cur, tab |-> syms, errs |-> <<>>, raised |-> FALSE,
              toks |-> << Token(CODE(Lower(val)), val, NoAttr, c.line, c.col) >>]
        ELSE [cur |-> run.cur, tab |-> add.tab, errs |-> <<>>, raised |-> FALSE,
              toks |-> << Token(CODE(<<"I","D">>), val, SymAttr(add.idx),
                                c.line, c.col) >>]

\* _scan_illegal_id: no caller in the program
ScanIllegalId(c) ==
  LET run == TakeWhile(c, IdChars, <<>>)
  IN  [cur |-> run.cur, toks |-> <<>>, raised |-> FALSE,
       errs |-> << LexError("ILLEGAL_ID", c.line, c.col, run.val,
                            "identifier cannot start with a digit") >>]

(***************************************************************************)
(* Numbers.                                                                *)
(***************************************************************************)
\* a sub-scan that returns a constant token
ConstResult(c, kind, val, consts, sl, sc) ==
  LET add == AddConst(consts, val)
  IN  [cur |-> c, tab |-> add.tab, errs |-> <<>>, raised |-> FALSE,
       toks |-> << Token(CODE(kind), val, ConstAttr(add.idx), sl, sc) >>]

\* a sub-scan that records one error and returns None
ErrorResult(c, type, val, extra, consts, sl, sc) ==
  [cur |-> c, tab |-> consts, toks |-> <<>>, raised |-> FALSE,
   errs |-> << LexError(type, sl, sc, val, extra) >>]

\* a sub-scan that returns None and records nothing
NoResult(c, consts) ==
  [cur |-> c, tab |-> consts, toks |-> <<>>, errs |-> <<>>, raised |-> FALSE]

\* DecimalTail rejecting a letter after the number, not an underscore
DecimalTailLettersOnly(c, val, isFloat, consts, sl, sc) ==
  IF Char(c) # None /\ IsAlpha(Char(c))
    THEN LET extra == TakeWhile(c, IdChars, <<>>)
         IN  ErrorResult(extra.cur, "ILLEGAL_NUMBER", val \o extra.val,
                         "letter directly after a number", consts, sl, sc)
    ELSE IF val = <<>>
      THEN NoResult(c, consts)
      ELSE ConstResult(c, IF isFloat THEN <<"F","L","O","A","T">>
                                     ELSE <<"I","N","T">>,
                       val, consts, sl, sc)

\* _scan_decimal_part from "the letter-suffix check" on (lines 412-425)
DecimalTail(c, val, isFloat, consts, sl, sc) ==
  IF Char(c) # None /\ (IsAlpha(Char(c)) \/ Char(c) = "_")
    THEN LET extra == TakeWhile(c, IdChars, <<>>)
         IN  ErrorResult(extra.cur, "ILLEGAL_NUMBER", val \o extra.val,
                         "letter directly after a number", consts, sl, sc)
    ELSE IF val = <<>>
      THEN NoResult(c, consts)
      ELSE ConstResult(c, IF isFloat THEN <<"F","L","O","A","T">>
                                     ELSE <<"I","N","T">>,
                       val, consts, sl, sc)

\* _scan_decimal_part from the exponent on (lines 395-425)
DecimalExp(c, val, has_dot, consts, sl, sc) ==
  IF Char(c) # None /\ LowerCh(Char(c)) = "e"
    THEN LET c1   == Advance(c)
             val1 == Append(val, Char(c))
             sign == Char(c1) \in {"+", "-"}
             c2   == IF sign THEN Advance(c1) ELSE c1
             val2 == IF sign THEN Append(val1, Char(c1)) ELSE val1
             exp  == TakeWhile(c2, Digits, <<>>)
         IN  IF exp.val = <<>>
               THEN ErrorResult(exp.cur, "ILLEGAL_FLOAT", val2,
                                "exponent has no digits", consts, sl, sc)
               ELSE DecimalTail(exp.cur, val2 \o exp.val, TRUE, consts, sl, sc)
    ELSE DecimalTail(c, val, has_dot, consts, sl, sc)

\* _scan_decimal_part without the test for a second '.' after the first
ScanDecimalPartNoDotDot(c, int_part, consts, sl, sc) ==
  IF Char(c) = "."
    THEN LET val1 == Append(int_part, Char(c))
             frac == TakeWhile(Advance(c), Digits, <<>>)
             val2 == val1 \o frac.val
         IN  IF frac.val = <<>> /\ int_part = <<>>
               THEN ErrorResult(frac.cur, "ILLEGAL_FLOAT", val1,
                                "missing digits", consts, sl, sc)
               ELSE IF Char(frac.cur) = "."
                 THEN LET extra == TakeWhile(frac.cur, Digits \cup {"."}, <<>>)
                      IN  ErrorResult(extra.cur, "ILLEGAL_FLOAT",
                                      val2 \o extra.val,
                                      "several decimal points", consts, sl, sc)
                 ELSE DecimalExp(frac.cur, val2, TRUE, consts, sl, sc)
    ELSE DecimalExp(c, int_part, FALSE, consts, sl, sc)

\* _scan_decimal_part(int_part, sl, sc)
ScanDecimalPart(c, int_part, consts, sl, sc) ==
  IF Char(c) = "."
    THEN IF Peek(c, 1) = "."
      THEN IF int_part # <<>>
             THEN ConstResult(c, <<"I","N","T">>, int_part, consts, sl, sc)
             ELSE NoResult(c, consts)
      ELSE LET val1 == Append(int_part, Char(c))
               frac == TakeWhile(Advance(c), Digits, <<>>)
               val2 == val1 \o frac.val
           IN  IF frac.val = <<>> /\ int_part = <<>>
                 THEN ErrorResult(frac.cur, "ILLEGAL_FLOAT", val1,
                                  "missing digits", consts, sl, sc)
                 ELSE IF Char(frac.cur) = "."
                   THEN LET extra == TakeWhile(frac.cur, Digits \cup {"."}, <<>>)
                        IN  ErrorResult(extra.cur, "ILLEGAL_FLOAT",
                                        val2 \o extra.val,
                                        "several decimal points", consts, sl, sc)
                   ELSE DecimalExp(frac.cur, val2, TRUE, consts, sl, sc)
    ELSE DecimalExp(c, int_part, FALSE, consts, sl, sc)

\* _scan_decimal(sl, sc)
ScanDecimal(c, consts, sl, sc) ==
  LET run == TakeWhile(c, Digits, <<>>)
  IN  ScanDecimalPart(run.cur, run.val, consts, sl, sc)

\* _scan_hex(sl, sc)
ScanHex(c, consts, sl, sc) ==
  LET val == << Char(c), Char(Advance(c)) >>
      hex == TakeWhile(Advance(Advance(c)), HexDigits, <<>>)
  IN  IF hex.val = <<>>
        THEN IF Char(hex.cur) # None /\ IsAlpha(Char(hex.cur))
          THEN LET rest == TakeWhile(hex.cur, IdChars, <<>>)
               IN  ErrorResult(rest.cur, "ILLEGAL_HEX", val \o rest.val,
                               "contains illegal characters", consts, sl, sc)
          ELSE ErrorResult(hex.cur, "ILLEGAL_HEX", val,
                           "missing hex digits", consts, sl, sc)
        ELSE ConstResult(hex.cur, <<"H","E","X">>, val \o hex.val,
                         consts, sl, sc)

\* the digit loop of _scan_octal: it stops at the first 8 or 9, after
\* consuming the rest of the digit run
RECURSIVE OctalDigits(_, _)
OctalDigits(c, val) ==
  IF Char(c) # None /\ IsDigit(Char(c))
    THEN IF Char(c) \in {"8", "9"}
           THEN LET rest == TakeWhile(c, Digits, val)
                IN  [cur |-> rest.cur, val |-> rest.val, bad |-> TRUE]
           ELSE OctalDigits(Advance(c), Append(val, Char(c)))
    ELSE [cur |-> c, val |-> val, bad |-> FALSE]

\* _scan_octal without the hand-over of "0<digits>.<digit>" to the float scan
ScanOctalNoFloat(c, consts, sl, sc) ==
  LET run == OctalDigits(Advance(c), << Char(c) >>)
  IN  IF run.bad
        THEN ErrorResult(run.cur, "ILLEGAL_OCT", run.val,
                         "octal number cannot contain 8 or 9", consts, sl, sc)
        ELSE IF Char(run.cur) # None /\ IsAlpha(Char(run.cur))
          THEN LET rest == TakeWhile(run.cur, IdChars, run.val)
               IN  ErrorResult(rest.cur, "ILLEGAL_NUMBER", rest.val, "",
                               consts, sl, sc)
          ELSE ConstResult(run.cur, <<"O","C","T">>, run.val, consts, sl, sc)

\* _scan_octal(sl, sc)
ScanOctal(c, consts, sl, sc) ==
  LET run == OctalDigits(Advance(c), << Char(c) >>)
  IN  IF run.bad
        THEN ErrorResult(run.cur, "ILLEGAL_OCT", run.val,
                         "octal number cannot contain 8 or 9", consts, sl, sc)
        ELSE IF Char(run.cur) # None /\ IsAlpha(Char(run.cur))
          THEN LET rest == TakeWhile(run.cur, IdChars, run.val)
               IN  ErrorResult(rest.cur, "ILLEGAL_NUMBER", rest.val, "",
                               consts, sl, sc)
          ELSE IF Char(run.cur) = "." /\ Peek(run.cur, 1) # None
                  /\ IsDigit(Peek(run.cur, 1))
            THEN ScanDecimalPart(run.cur, run.val, consts, sl, sc)
            ELSE ConstResult(run.cur, <<"O","C","T">>, run.val, consts, sl, sc)

\* _scan_num
ScanNum(c, consts) ==
  IF Char(c) = "0" /\ Peek(c, 1) \in {"x", "X"}
    THEN ScanHex(c, consts, c.line, c.col)
    ELSE IF Char(c) = "0" /\ Peek(c, 1) # None /\ IsDigit(Peek(c, 1))
      THEN ScanOctal(c, consts, c.line, c.col)
      ELSE ScanDecimal(c, consts, c.line, c.col)

\* _scan_leading_dot_number
ScanLeadingDotNumber(c, consts) ==
  IF Char(c) = "." /\ Peek(c, 1) # None /\ IsDigit(Peek(c, 1))
    THEN ScanDecimalPart(c, <<>>, consts, c.line, c.col)
    ELSE NoResult(c, consts)

(***************************************************************************)
(* Character and string literals.                                          *)
(***************************************************************************)
\* the loop  for _ in range(n): if self._char() in S: val += self._advance()
RECURSIVE TakeUpTo(_, _, _, _)
TakeUpTo(c, S, n, val) ==
  IF n > 0 /\ Char(c) # None /\ Char(c) \in S
    THEN TakeUpTo(Advance(c), S, n - 1, Append(val, Char(c)))
    ELSE [cur |-> c, val |-> val]

\* the loop  while self._char() and self._char() not in Stop:
\*               val += self._advance()
RECURSIVE TakeUntil(_, _, _)
TakeUntil(c, Stop, val) ==
  IF Char(c) # None /\ Char(c) \notin Stop
    THEN TakeUntil(Advance(c), Stop, Append(val, Char(c)))
    ELSE [cur |-> c, val |-> val]

\* CharTail returning the token of a literal of several characters as well
CharTailTokenOnMultiChar(c, display, errs, consts, sl, sc) ==
  LET extra == TakeUntil(c, {"'", "\n"}, <<>>)
      disp1 == display \o extra.val
      disp2 == Append(disp1, "'")
      add   == AddConst(consts, disp2)
  IN  IF Char(extra.cur) # "'"
        THEN [cur |-> extra.cur, tab |-> consts, toks |-> <<>>,
              raised |-> FALSE,
              errs |-> Append(errs, LexError("UNCLOSED_CHAR", sl, sc, disp1, ""))]
        ELSE [cur |-> Advance(extra.cur), tab |-> add.tab, raised |-> FALSE,
              errs |-> IF extra.val # <<>>
                         THEN Append(errs, LexError("MULTI_CHAR", sl, sc,
                                                    disp2, ""))
                         ELSE errs,
              toks |-> << Token(CODE(<<"C","H","A","R">>), disp2,
                                ConstAttr(add.idx), sl, sc) >>]

\* _scan_char from "the check for extra characters" on (lines 493-510);
\* errs are the errors the escape has recorded
CharTail(c, display, errs, consts, sl, sc) ==
  LET extra == TakeUntil(c, {"'", "\n"}, <<>>)
      disp1 == display \o extra.val
      disp2 == Append(disp1, "'")
      add   == AddConst(consts, disp2)
  IN  IF Char(extra.cur) # "'"
        THEN [cur |-> extra.cur, tab |-> consts, toks |-> <<>>,
              raised |-> FALSE,
              errs |-> Append(errs, LexError("UNCLOSED_CHAR", sl, sc, disp1, ""))]
        ELSE IF extra.val # <<>>
          THEN [cur |-> Advance(extra.cur), tab |-> consts, toks |-> <<>>,
                raised |-> FALSE,
                errs |-> Append(errs, LexError("MULTI_CHAR", sl, sc, disp2, ""))]
          ELSE [cur |-> Advance(extra.cur), tab |-> add.tab, errs |-> errs,
                raised |-> FALSE,
                toks |-> << Token(CODE(<<"C","H","A","R">>), disp2,
                                  ConstAttr(add.idx), sl, sc) >>]

\* CharEscape giving the literal up at an illegal escape, as it does at \x
CharEscapeAbortOnIllegal(c, display, consts, sl, sc) ==
  LET escape_char == Char(c)
      disp1 == Append(display, escape_char)
      c1    == Advance(c)
      hex   == TakeUpTo(c1, HexDigits, 2, <<>>)
      oct   == TakeUpTo(c1, OctDigits, 2, <<>>)
      skip  == TakeUntil(IF escape_char = "x" THEN hex.cur ELSE c1,
                         {"'", "\n"}, <<>>)
      abort(val) ==
        [cur |-> IF Char(skip.cur) = "'" THEN Advance(skip.cur) ELSE skip.cur,
         tab |-> consts, toks |-> <<>>, raised |-> FALSE,
         errs |-> << LexError("ILLEGAL_ESCAPE", sl, sc, val, "") >>]
  IN  IF escape_char = "x"
        THEN IF hex.val # <<>>
               THEN CharTail(hex.cur, disp1 \o hex.val, <<>>, consts, sl, sc)
               ELSE abort(disp1)
        ELSE IF escape_char \in ESCAPE_CHARS
          THEN CharTail(c1, disp1, <<>>, consts, sl, sc)
          ELSE IF IsDigit(escape_char)
            THEN IF escape_char \in {"8", "9"}
                   THEN [cur |-> oct.cur, tab |-> consts, toks |-> <<>>,
                         errs |-> <<>>, raised |-> TRUE]
                   ELSE CharTail(oct.cur, disp1 \o oct.val, <<>>,
                                 consts, sl, sc)
            ELSE abort(<<"\\", escape_char>>)

\* _scan_char after the backslash: c is at the escape character (lines
\* 459-488); int(oct_val, 8) raises ValueError when the digit is 8 or 9
CharEscape(c, display, consts, sl, sc) ==
  LET escape_char == Char(c)
      disp1 == Append(display, escape_char)
      c1    == Advance(c)
  IN  IF escape_char = "x"
        THEN LET hex == TakeUpTo(c1, HexDigits, 2, <<>>)
                 skip == TakeUntil(hex.cur, {"'", "\n"}, <<>>)
             IN  IF hex.val # <<>>
                   THEN CharTail(hex.cur, disp1 \o hex.val, <<>>, consts, sl, sc)
                   ELSE [cur |-> IF Char(skip.cur) = "'"
                                   THEN Advance(skip.cur) ELSE skip.cur,
                         tab |-> consts, toks |-> <<>>, raised |-> FALSE,
                         errs |-> << LexError("ILLEGAL_ESCAPE", sl, sc,
                                              disp1, "") >>]
        ELSE IF escape_char \in ESCAPE_CHARS
          THEN CharTail(c1, disp1, <<>>, consts, sl, sc)
          ELSE IF IsDigit(escape_char)
            THEN LET oct == TakeUpTo(c1, OctDigits, 2, <<>>)
                 IN  IF escape_char \in {"8", "9"}
                       THEN [cur |-> oct.cur, tab |-> consts, toks |-> <<>>,
                             errs |-> <<>>, raised |-> TRUE]
                       ELSE CharTail(oct.cur, disp1 \o oct.val, <<>>,
                                     consts, sl, sc)
            ELSE CharTail(c1, disp1,
                          << LexError("ILLEGAL_ESCAPE", sl, sc,
                                      <<"\\", escape_char>>, "") >>,
                          consts, sl, sc)

\* _scan_char
ScanChar(c, consts) ==
  LET sl == c.line
      sc == c.col
      c1 == Advance(c)
      c2 == Advance(c1)
  IN  IF Char(c1) = None \/ Char(c1) = "\n"
        THEN ErrorResult(c1, "UNCLOSED_CHAR", <<"'">>, "", consts, sl, sc)
        ELSE IF Char(c1) = "'"
          THEN ErrorResult(c2, "EMPTY_CHAR", <<"'", "'">>, "", consts, sl, sc)
          ELSE IF Char(c1) = "\\"
            THEN IF Char(c2) = None
                   THEN ErrorResult(c2, "UNCLOSED_CHAR", <<"'", "\\">>, "",
                                    consts, sl, sc)
                   ELSE CharEscape(c2, <<"'", "\\">>, consts, sl, sc)
            ELSE CharTail(c2, <<"'", Char(c1)>>, <<>>, consts, sl, sc)

\* the loop of _scan_string (lines 522-557): the cursor and the raw text it
\* leaves, the errors it records, and whether int(oct_val, 8) raised
RECURSIVE StringBody(_, _, _, _, _)
StringBody(c, val, errs, sl, sc) ==
  IF Char(c) # None /\ Char(c) # "\"" /\ Char(c) # "\n"
    THEN IF Char(c) = "\\"
      THEN LET c1   == Advance(c)
               val1 == Append(val, Char(c))
               escape_char == Char(c1)
               c2   == Advance(c1)
               val2 == Append(val1, escape_char)
               hex  == TakeUpTo(c2, HexDigits, 2, <<>>)
               oct  == TakeUpTo(c2, OctDigits, 2, <<>>)
           IN  IF escape_char = None \/ escape_char = "\n"
                 THEN [cur |-> c1, val |-> val1, errs |-> errs,
                       raised |-> FALSE]
                 ELSE IF escape_char = "x"
                   THEN IF hex.val # <<>>
                     THEN StringBody(hex.cur, val2 \o hex.val, errs, sl, sc)
                     ELSE StringBody(c2, val2,
                            Append(errs, LexError("ILLEGAL_ESCAPE", sl, sc,
                                                  <<"\\", "x">>, "")),
                            sl, sc)
                   ELSE IF escape_char \in ESCAPE_CHARS
                     THEN StringBody(c2, val2, errs, sl, sc)
                     ELSE IF IsDigit(escape_char)
                       THEN IF escape_char \in {"8", "9"}
                         THEN [cur |-> oct.cur, val |-> val2 \o oct.val,
                               errs |-> errs, raised |-> TRUE]
                         ELSE StringBody(oct.cur, val2 \o oct.val, errs, sl, sc)
                       ELSE StringBody(c2, val2,
                              Append(errs, LexError("ILLEGAL_ESCAPE", sl, sc,
                                                    <<"\\", escape_char>>, "")),
                              sl, sc)
      ELSE StringBody(Advance(c), Append(val, Char(c)), errs, sl, sc)
    ELSE [cur |-> c, val |-> val, errs |-> errs, raised |-> FALSE]

\* _scan_string entering the text between the quotes in the constant table
ScanStringKeyedOnContent(c, consts) ==
  LET sl   == c.line
      sc   == c.col
      body == StringBody(Advance(c), <<"\"">>, <<>>, sl, sc)
      val  == Append(body.val, "\"")
      add  == AddConst(consts, Tail(body.val))
  IN  IF body.raised
        THEN [cur |-> body.cur, tab |-> consts, toks |-> <<>>,
              errs |-> body.errs, raised |-> TRUE]
        ELSE IF Char(body.cur) # "\""
          THEN [cur |-> body.cur, tab |-> consts, toks |-> <<>>,
                raised |-> FALSE,
                errs |-> Append(body.errs,
                                LexError("UNCLOSED_STRING", sl, sc, body.val, ""))]
          ELSE [cur |-> Advance(body.cur), tab |-> add.tab,
                errs |-> body.errs, raised |-> FALSE,
                toks |-> << Token(CODE(<<"S","T","R","I","N","G">>), val,
                                  ConstAttr(add.idx), sl, sc) >>]

\* _scan_string
ScanString(c, consts) ==
  LET sl   == c.line
      sc   == c.col
      body == StringBody(Advance(c), <<"\"">>, <<>>, sl, sc)
      val  == Append(body.val, "\"")
      add  == AddConst(consts, val)
  IN  IF body.raised
        THEN [cur |-> body.cur, tab |-> consts, toks |-> <<>>,
              errs |-> body.errs, raised |-> TRUE]
        ELSE IF Char(body.cur) # "\""
          THEN [cur |-> body.cur, tab |-> consts, toks |-> <<>>,
                raised |-> FALSE,
                errs |-> Append(body.errs,
                                LexError("UNCLOSED_STRING", sl, sc, body.val, ""))]
          ELSE [cur |-> Advance(body.cur), tab |-> add.tab,
                errs |-> body.errs, raised |-> FALSE,
                toks |-> << Token(CODE(<<"S","T","R","I","N","G">>), val,
                                  ConstAttr(add.idx), sl, sc) >>]

(***************************************************************************)
(* Operators and delimiters.                                               *)
(***************************************************************************)
\* a sub-scan that returns an operator or delimiter token
PlainResult(c, lexeme, sl, sc) ==
  [cur |-> c, errs |-> <<>>, raised |-> FALSE,
   toks |-> << Token(CODE(lexeme), lexeme, NoAttr, sl, sc) >>]

\* _scan_op trying the two-character operators before the three-character ones
ScanOpDoubleFirst(c) ==
  LET ch    == Char(c)
      three == << ch, Peek(c, 1), Peek(c, 2) >>
      two   == << ch, Peek(c, 1) >>
  IN  IF Peek(c, 1) # None /\ two \in DOUBLE_OPS
        THEN PlainResult(Advance(Advance(c)), two, c.line, c.col)
        ELSE IF Peek(c, 1) # None /\ Peek(c, 2) # None /\ three \in TRIPLE_OPS
          THEN PlainResult(Advance(Advance(Advance(c))), three, c.line, c.col)
          ELSE IF ch \in SINGLE_OPS
            THEN PlainResult(Advance(c), <<ch>>, c.line, c.col)
            ELSE [cur |-> c, toks |-> <<>>, errs |-> <<>>, raised |-> FALSE]

\* _scan_op
ScanOp(c) ==
  LET ch    == Char(c)
      three == << ch, Peek(c, 1), Peek(c, 2) >>
      two   == << ch, Peek(c, 1) >>
  IN  IF Peek(c, 1) # None /\ Peek(c, 2) # None /\ three \in TRIPLE_OPS
        THEN PlainResult(Advance(Advance(Advance(c))), three, c.line, c.col)
        ELSE IF Peek(c, 1) # None /\ two \in DOUBLE_OPS
          THEN PlainResult(Advance(Advance(c)), two, c.line, c.col)
          ELSE IF ch \in SINGLE_OPS
            THEN PlainResult(Advance(c), <<ch>>, c.line, c.col)
            ELSE [cur |-> c, toks |-> <<>>, errs |-> <<>>, raised |-> FALSE]

\* _scan_delim
ScanDelim(c) ==
  IF Char(c) \in DELIMITERS
    THEN PlainResult(Advance(c), << Char(c) >>, c.line, c.col)
    ELSE [cur |-> c, toks |-> <<>>, errs |-> <<>>, raised |-> FALSE]

(***************************************************************************)
(* The source texts that are checked: every text up to a length over an    *)
(* alphabet, for four alphabets, and the scenarios of the specification.   *)
(***************************************************************************)
Strs(A, n) == UNION { [1..k -> A] : k \in 0..n }

MixAlphabet == {"a", "0", " ", "\n", ";", "#", "@", "/", "*", "\"", "'", "."}
OpAlphabet  == {"a", "b", ">", "<", "=", "-"}
NumAlphabet == {"0", "7", "8", "x", "e", "a", ".", "+"}
LitAlphabet == {"\"", "'", "\\", "n", "x", "q", "4", "8", "\n"}
WordAlphabet == {"i", "f", "I", "F", "d", "o", "_", ";"}
Quotes      == {"\"", "'"}

SpecExamples ==
  { <<"a", ">", ">", "=", "b">>,
    <<"x", " ", "=", " ", "x", " ", "+", " ", "1", ";">>,
    <<"4", "2">>, <<"3", ".", "1", "4">>, <<".", "5">>,
    <<"0", "x", "1", "A">>, <<"0", "1", "7">>, <<"0", "7", ".", "5">>,
    <<"0", "8", "9">>,
    <<"\"", "a", "\\", "n", "b", "\"">>,
    <<"1", "a", "b", "c", ";">>,
    <<"\"", "h", "e", "l", "l", "o">>,
    <<"x", ";", "#", "y", ";">> }

\* words in several cases: the keywords, and words that are none
WordExamples ==
  KEYWORDS \cup
  { <<"I", "n", "t">>, <<"W", "H", "I", "L", "E">>, <<"i", "n", "t", "_">>,
    <<"x", "i", "n", "t">>, <<"i", "n", "t", "1">>,
    <<"i", "n", "t", " ", "I", "N", "T", " ", "x", " ", "X", " ", "x", ";">> }

\* literals with octal escapes
EscapeExamples ==
  { <<"'", "\\", "0", "'">>, <<"'", "\\", "1", "0", "1", "'">>,
    <<"'", "\\", "0", "1", "2", "'">>, <<"'", "\\", "9", "'">>,
    <<"\"", "\\", "1", "0", "1", "\"">>, <<"\"", "\\", "0", "1", "2", "\"">>,
    <<"\"", "a", "\\", "7", "7", "b", "\"">> }

\* numbers with a letter or an underscore right after them
SuffixExamples ==
  { <<"0", "7", "_">>, <<"1", "_">>, <<"1", ".", "5", "_">>,
    <<"0", "x", "1", "g">>, <<"0", "x", "1", "_">>, <<"0", "7", "a">>,
    <<"0", "7", ".", "5", "a">>, <<"1", "e", "5", "x">>, <<"0", "_">> }

\* digit runs before two dots
DotDotExamples ==
  { <<"1", ".", ".", "2">>, <<"1", "2", ".", ".">>,
    <<"x", "=", "1", ".", ".", "1", "0", ";">> }

Sources ==
  Strs(MixAlphabet, MaxMixLen) \cup Strs(OpAlphabet, MaxOpLen)
    \cup Strs(NumAlphabet, MaxNumLen)
    \cup { <<q>> \o w : q \in Quotes, w \in Strs(LitAlphabet, MaxLitLen) }
    \cup Strs(WordAlphabet, MaxWordLen)
    \cup SpecExamples \cup WordExamples \cup EscapeExamples
    \cup SuffixExamples \cup DotDotExamples

(***************************************************************************)
(* Lexer(source): the state after construction.                            *)
(***************************************************************************)
Init ==
  /\ src \in Sources
  /\ pos = 0
  /\ line = 1
  /\ col = 1
  /\ tokens = <<>>
  /\ errors = <<>>
  /\ sym_table = <<>>
  /\ const_table = <<>>
  /\ pc = "init"
  /\ calls = 0
  /\ iters = 0

(***************************************************************************)
(* tokenize: the call, the iterations of the driver loop, the return.      *)
(***************************************************************************)
\* the cursor of the instance
Cur == Cursor(pos, line, col)

\* an iteration begins: the loop condition holds
InLoop == pc = "loop" /\ pos < Len(src)

\* step 1 of an iteration: _skip_ws
AfterWs == SkipWs(Cur)

\* step 2 of an iteration: _skip_comment
AfterComment == SkipComment(AfterWs.cur)

\* the iteration reaches the dispatch on the current character
Dispatching ==
  /\ InLoop
  /\ ~AfterWs.raised
  /\ Char(AfterWs.cur) # None
  /\ ~AfterComment.skipped

\* the cursor and the character of the dispatch
DCur == AfterWs.cur
DCh  == Char(AfterWs.cur)

\* the character after it, "" at the end of input: self._peek() or ''
DTwo == IF Peek(DCur, 1) = None THEN <<DCh>> ELSE <<DCh, Peek(DCur, 1)>>

\* the branches of the dispatch, in the order of the if/elif chain
IsIdStart   == IsAlpha(DCh) \/ DCh = "_"
IsNumStart  == ~IsIdStart /\ IsDigit(DCh)
IsDotStart  == /\ ~IsIdStart /\ ~IsDigit(DCh)
               /\ DCh = "." /\ Peek(DCur, 1) # None /\ IsDigit(Peek(DCur, 1))
IsCharStart == ~IsIdStart /\ ~IsDigit(DCh) /\ ~IsDotStart /\ DCh = "'"
IsStrStart  == ~IsIdStart /\ ~IsDigit(DCh) /\ ~IsDotStart /\ DCh = "\""
IsLiteralOrWord ==
  IsIdStart \/ IsDigit(DCh) \/ IsDotStart \/ DCh = "'" \/ DCh = "\""
IsOpStart   == ~IsLiteralOrWord /\ (DCh \in SINGLE_OPS \/ DTwo \in DOUBLE_OPS)
IsDelimStart == ~IsLiteralOrWord /\ ~IsOpStart /\ DCh \in DELIMITERS
IsIllegal   == ~IsLiteralOrWord /\ ~IsOpStart /\ ~IsDelimStart

\* the assignments of an iteration that ran the sub-scan with result r
Leave(r, next) ==
  /\ pos' = r.cur.pos
  /\ line' = r.cur.line
  /\ col' = r.cur.col
  /\ tokens' = tokens \o r.toks
  /\ errors' = errors \o r.errs
  /\ pc' = IF r.raised THEN "raised" ELSE next
  /\ iters' = iters + 1
  /\ UNCHANGED <<src, calls>>

\* tokenize() is called
Tokenize ==
  /\ pc \in {"init", "done"}
  /\ calls < MaxCalls
  /\ pc' = "loop"
  /\ calls' = calls + 1
  /\ iters' = 0
  /\ UNCHANGED <<src, pos, line, col, tokens, errors, sym_table, const_table>>

\* the loop condition fails: return self.tokens, self.errors
Return ==
  /\ pc = "loop"
  /\ ~(pos < Len(src))
  /\ pc' = "done"
  /\ UNCHANGED <<src, pos, line, col, tokens, errors, sym_table, const_table,
                 calls, iters>>

\* _skip_ws runs into the end of the input: it raises, and the break of
\* "if not self._char()" is taken only if it does not
WsToEnd ==
  /\ InLoop
  /\ AfterWs.raised \/ Char(AfterWs.cur) = None
  /\ Leave([cur |-> AfterWs.cur, toks |-> <<>>, errs |-> <<>>,
            raised |-> AfterWs.raised], "done")
  /\ UNCHANGED <<sym_table, const_table>>

\* _skip_comment skipped a comment: continue
CommentStep ==
  /\ InLoop
  /\ ~AfterWs.raised
  /\ Char(AfterWs.cur) # None
  /\ AfterComment.skipped
  /\ Leave([cur |-> AfterComment.cur, toks |-> <<>>,
            errs |-> AfterComment.errs, raised |-> FALSE], "loop")
  /\ UNCHANGED <<sym_table, const_table>>

\* a letter or underscore: self.tokens.append(self._scan_id())
IdStep ==
  /\ Dispatching
  /\ IsIdStart
  /\ Leave(ScanId(DCur, sym_table), "loop")
  /\ sym_table' = ScanId(DCur, sym_table).tab
  /\ UNCHANGED const_table

\* the pre-scan of the digit branch: temp_val, the run of letters, digits and
\* underscores at the cursor
PreScanRun(c) == TakeWhile(c, IdChars, <<>>).val

\* has_letter and not is_hex and not is_exp: the run is what the pre-scan
\* calls an illegal identifier such as "123abc"
PreScanIllegalId(c) ==
  LET temp_val   == PreScanRun(c)
      has_letter == \E i \in 1..Len(temp_val) : IsAlpha(temp_val[i])
      is_hex     == /\ Len(temp_val) >= 2
                    /\ Lower(SubSeq(temp_val, 1, 2)) = <<"0", "x">>
      is_exp     == /\ \E i \in 1..Len(temp_val) : LowerCh(temp_val[i]) = "e"
                    /\ ~ \E i \in 1..Len(temp_val) :
                           /\ IsAlpha(temp_val[i])
                           /\ LowerCh(temp_val[i])
                                \notin {"a", "b", "c", "d", "e", "f", "x"}
  IN  has_letter /\ ~is_hex /\ ~is_exp

\* a digit: _scan_num; the pre-scan of lines 654-662 changes nothing
NumStep ==
  /\ Dispatching
  /\ IsNumStart
  /\ Leave(ScanNum(DCur, const_table), "loop")
  /\ const_table' = ScanNum(DCur, const_table).tab
  /\ UNCHANGED sym_table

\* a dot before a digit: _scan_leading_dot_number
DotStep ==
  /\ Dispatching
  /\ IsDotStart
  /\ Leave(ScanLeadingDotNumber(DCur, const_table), "loop")
  /\ const_table' = ScanLeadingDotNumber(DCur, const_table).tab
  /\ UNCHANGED sym_table

\* a single quote: _scan_char
CharStep ==
  /\ Dispatching
  /\ IsCharStart
  /\ Leave(ScanChar(DCur, const_table), "loop")
  /\ const_table' = ScanChar(DCur, const_table).tab
  /\ UNCHANGED sym_table

\* a double quote: _scan_string
StringStep ==
  /\ Dispatching
  /\ IsStrStart
  /\ Leave(ScanString(DCur, const_table), "loop")
  /\ const_table' = ScanString(DCur, const_table).tab
  /\ UNCHANGED sym_table

\* an operator character: _scan_op, unless a comment starts here
OpStep ==
  /\ Dispatching
  /\ IsOpStart
  /\ IF DCh = "/" /\ Peek(DCur, 1) \in {"/", "*"}
       THEN Leave([cur |-> DCur, toks |-> <<>>, errs |-> <<>>,
                   raised |-> FALSE], "loop")
       ELSE Leave(ScanOp(DCur), "loop")
  /\ UNCHANGED <<sym_table, const_table>>

\* DelimStep without the break at '#'
DelimStepNoBreak ==
  /\ Dispatching
  /\ IsDelimStart
  /\ Leave(ScanDelim(DCur), "loop")
  /\ UNCHANGED <<sym_table, const_table>>

\* a delimiter: _scan_delim, and '#' ends the loop
DelimStep ==
  /\ Dispatching
  /\ IsDelimStart
  /\ Leave(ScanDelim(DCur), IF DCh = "#" THEN "done" ELSE "loop")
  /\ UNCHANGED <<sym_table, const_table>>

\* IllegalCharStep without its self._advance()
IllegalCharStepNoAdvance ==
  /\ Dispatching
  /\ IsIllegal
  /\ Leave([cur |-> DCur, toks |-> <<>>, raised |-> FALSE,
            errs |-> << LexError("ILLEGAL_CHAR", DCur.line, DCur.col,
                                 <<DCh>>, "") >>], "loop")
  /\ UNCHANGED <<sym_table, const_table>>

\* any other character: ILLEGAL_CHAR, and skip it
IllegalCharStep ==
  /\ Dispatching
  /\ IsIllegal
  /\ Leave([cur |-> Advance(DCur), toks |-> <<>>, raised |-> FALSE,
            errs |-> << LexError("ILLEGAL_CHAR", DCur.line, DCur.col,
                                 <<DCh>>, "") >>], "loop")
  /\ UNCHANGED <<sym_table, const_table>>

Next ==
  \/ Tokenize
  \/ Return
  \/ WsToEnd
  \/ CommentStep
  \/ IdStep
  \/ NumStep
  \/ DotStep
  \/ CharStep
  \/ StringStep
  \/ OpStep
  \/ DelimStep
  \/ IllegalCharStep

Spec == Init /\ [][Next]_vars

(***************************************************************************)
(* Notions the properties are stated with.  They are written from the      *)
(* source text alone, not from what the scanner did.                       *)
(***************************************************************************)
\* source[p:q]
Slice(p, q) == SubSeq(src, p + 1, q)

AllIn(s, S) == \A i \in 1..Len(s) : s[i] \in S

\* the (line, column) of the character at index p, counted on the text
LineOf(p) == 1 + Cardinality({k \in 1..p : src[k] = "\n"})
ColOf(p)  ==
  LET nl == {k \in 1..p : src[k] = "\n"}
  IN  IF nl = {} THEN p + 1
                 ELSE p + 1 - (CHOOSE k \in nl : \A j \in nl : j <= k)

\* the index whose (line, column) is (l, c)
HasPos(l, c) == \E p \in 0..Len(src) : LineOf(p) = l /\ ColOf(p) = c
PosOf(l, c)  == CHOOSE p \in 0..Len(src) : LineOf(p) = l /\ ColOf(p) = c

\* the index where token t starts, and the index just past it
StartOf(t) == PosOf(t.line, t.col)
EndOf(t)   == PosOf(t.line, t.col) + Len(t.value)

\* the lexemes of the tokens, in order
Values(toks) == [i \in 1..Len(toks) |-> toks[i].value]

\* s without the repetitions of an earlier element
RECURSIVE Distinct(_)
Distinct(s) ==
  IF s = <<>> THEN <<>>
  ELSE LET front == Distinct(SubSeq(s, 1, Len(s) - 1))
           last  == s[Len(s)]
       IN  IF last \in Range(front) THEN front ELSE Append(front, last)

NoDuplicates(t) == \A i, j \in 1..Len(t) : t[i] = t[j] => i = j

ConstCodes == {51, 52, 53, 54, 55, 56}

\* the step is an iteration of the driver loop
IterationStep == InLoop /\ iters' = iters + 1

(***************************************************************************)
(* C1.  No exception crosses the scan boundary.                            *)
(***************************************************************************)
\* C1: for every source text a call of tokenize returns normally: no run
\* ends in an uncaught exception, failures are LexError entries only.
C1_NoException == pc # "raised"

(***************************************************************************)
(* C2.  Termination of the driver loop.                                    *)
(***************************************************************************)
\* C2: every iteration of the driver loop either ends the loop or leaves the
\* cursor strictly greater than it was at the start of the iteration, also
\* when its sub-scan fails and emits no token; hence the loop of one call
\* runs at most len(source) iterations.
C2_Termination ==
  [][ IterationStep =>
        /\ pc' = "done" \/ pos' > pos
        /\ pos' <= Len(src)
        /\ iters' <= Len(src) ]_vars

\* an iteration whose sub-scan failed in the middle of the text: no token,
\* an error, the cursor moved on and the loop goes on
C2_Witness ==
  /\ pc = "loop"
  /\ iters = 1
  /\ tokens = <<>>
  /\ errors # <<>>
  /\ 0 < pos /\ pos < Len(src)

(***************************************************************************)
(* C3.  Maximal munch.                                                     *)
(***************************************************************************)
AllOps == TRIPLE_OPS \cup DOUBLE_OPS \cup { <<ch>> : ch \in SINGLE_OPS }

\* op is a prefix of the source at index p
IsPrefixAt(op, p) == p + Len(op) <= Len(src) /\ Slice(p, p + Len(op)) = op

\* the longest operator that is a prefix of the source at index p
LongestOpAt(p) ==
  CHOOSE op \in AllOps :
    /\ IsPrefixAt(op, p)
    /\ \A other \in AllOps : IsPrefixAt(other, p) => Len(other) <= Len(op)

\* the driver dispatches to _scan_op
OpDispatch ==
  Dispatching /\ IsOpStart /\ ~(DCh = "/" /\ Peek(DCur, 1) \in {"/", "*"})

\* C3: whenever the driver dispatches to _scan_op at a position p, the
\* emitted token's lexeme is the longest string of TRIPLE_OPS, DOUBLE_OPS and
\* SINGLE_OPS that is a prefix of the source at p, and the cursor advances
\* by exactly that length.
C3_MaximalMunch ==
  [][ OpDispatch =>
        LET op == LongestOpAt(DCur.pos)
        IN  /\ tokens' = Append(tokens, Token(CODE(op), op, NoAttr,
                                              LineOf(DCur.pos), ColOf(DCur.pos)))
            /\ errors' = errors
            /\ pos' = DCur.pos + Len(op) ]_vars

\* 'a>>=b' has been scanned to ID(a), '>>=', ID(b)
C3_Witness ==
  /\ src = <<"a", ">", ">", "=", "b">>
  /\ pc = "done"
  /\ Values(tokens) = << <<"a">>, <<">", ">", "=">>, <<"b">> >>
  /\ tokens[2].code = 90

(***************************************************************************)
(* C4.  The tables.                                                        *)
(***************************************************************************)
\* the tokens of toks whose code is in codes
RECURSIVE Select(_, _)
Select(toks, codes) ==
  IF toks = <<>> THEN <<>>
  ELSE LET front == Select(SubSeq(toks, 1, Len(toks) - 1), codes)
           last  == toks[Len(toks)]
       IN  IF last.code \in codes THEN Append(front, last) ELSE front

\* C4: in every reachable state the two tables have no duplicate entries;
\* the identifier table is the distinct lexemes of the ID tokens emitted so
\* far, in first-occurrence order, and the constant table the distinct
\* lexemes of the INT/FLOAT/CHAR/STRING/HEX/OCT tokens, in first-occurrence
\* order; every 'SYM:n' and 'CONST:n' attribute satisfies table[n] = lexeme.
C4_TableDeterminism ==
  /\ NoDuplicates(sym_table)
  /\ NoDuplicates(const_table)
  /\ sym_table = Distinct(Values(Select(tokens, {50})))
  /\ const_table = Distinct(Values(Select(tokens, ConstCodes)))
  /\ \A i \in 1..Len(tokens) :
       LET t == tokens[i]
       IN  /\ t.code = 50 =>
                /\ t.attr[1] = "SYM"
                /\ t.attr[2] + 1 \in 1..Len(sym_table)
                /\ sym_table[t.attr[2] + 1] = t.value
           /\ t.code \in ConstCodes =>
                /\ t.attr[1] = "CONST"
                /\ t.attr[2] + 1 \in 1..Len(const_table)
                /\ const_table[t.attr[2] + 1] = t.value
           /\ t.code \notin ConstCodes \cup {50} => t.attr = NoAttr

\* 'x = x + 1;' has been scanned: two ID tokens x share the one entry
C4_Witness ==
  /\ pc = "done"
  /\ sym_table = << <<"x">> >>
  /\ const_table = << <<"1">> >>
  /\ Len(Select(tokens, {50})) = 2
  /\ tokens[1].attr = tokens[3].attr

(***************************************************************************)
(* C5.  Numeric classification.                                            *)
(***************************************************************************)
\* the driver dispatches to a number scan
NumDispatch == Dispatching /\ (IsNumStart \/ IsDotStart)

\* the literal ends at index q: the end of input, or a character that is
\* not a letter, digit, underscore or '.'
FollowOk(q) == q = Len(src) \/ src[q + 1] \notin IdChars \cup {"."}

IsHexLit(s) ==
  /\ Len(s) >= 3
  /\ s[1] = "0" /\ s[2] \in {"x", "X"}
  /\ AllIn(SubSeq(s, 3, Len(s)), HexDigits)

\* a leading '0' followed by a run of digits
IsZeroRun(s) == Len(s) >= 2 /\ s[1] = "0" /\ AllIn(s, Digits)
IsOctRun(s)  == IsZeroRun(s) /\ AllIn(s, OctDigits)
IsBadOctRun(s) == IsZeroRun(s) /\ ~AllIn(s, OctDigits)

\* a decimal point with its fraction digits; an exponent
IsDotPart(d) == Len(d) >= 1 /\ d[1] = "." /\ AllIn(Tail(d), Digits)
IsExpPart(e) ==
  /\ Len(e) >= 2
  /\ e[1] \in {"e", "E"}
  /\ LET digs == IF e[2] \in {"+", "-"} THEN SubSeq(e, 3, Len(e)) ELSE Tail(e)
     IN  Len(digs) >= 1 /\ AllIn(digs, Digits)

\* s is a digit run (empty only before ".<digit>") with a decimal point
\* and/or an exponent; anyRun tells whether a run "0<digits>" counts whatever
\* follows it, or only when it is octal and ".<digit>" follows
IsFloatLit(s, anyRun) ==
  \E i \in 0..Len(s) : \E j \in i..Len(s) :
    LET run == SubSeq(s, 1, i)
        dot == SubSeq(s, i + 1, j)
        exp == SubSeq(s, j + 1, Len(s))
    IN  /\ AllIn(run, Digits)
        /\ dot = <<>> \/ IsDotPart(dot)
        /\ exp = <<>> \/ IsExpPart(exp)
        /\ dot # <<>> \/ exp # <<>>
        /\ run = <<>> => Len(dot) >= 2
        /\ \/ anyRun
           \/ ~IsZeroRun(run)
           \/ IsOctRun(run) /\ Len(dot) >= 2

IsIntLit(s) == Len(s) >= 1 /\ AllIn(s, Digits) /\ ~IsZeroRun(s)

\* the iteration appends one token of code kind and lexeme s, records no
\* error and leaves the cursor at q
EmitsOnly(kind, s, q) ==
  /\ Len(tokens') = Len(tokens) + 1
  /\ SubSeq(tokens', 1, Len(tokens)) = tokens
  /\ tokens'[Len(tokens')].code = kind
  /\ tokens'[Len(tokens')].value = s
  /\ errors' = errors
  /\ pos' = q

\* the iteration appends one error of the type and no token
FailsWith(type) ==
  /\ tokens' = tokens
  /\ Len(errors') = Len(errors) + 1
  /\ SubSeq(errors', 1, Len(errors)) = errors
  /\ errors'[Len(errors')].error_type = type

NumericRule(anyRun) ==
  NumDispatch =>
    \A q \in (DCur.pos + 1)..Len(src) :
      LET s == Slice(DCur.pos, q)
      IN  FollowOk(q) =>
            /\ IsHexLit(s) => EmitsOnly(55, s, q)
            /\ IsOctRun(s) => EmitsOnly(56, s, q)
            /\ IsBadOctRun(s) => FailsWith("ILLEGAL_OCT")
            /\ IsFloatLit(s, anyRun) => EmitsOnly(52, s, q)
            /\ IsIntLit(s) => EmitsOnly(51, s, q)

\* C5, as claimed: of a literal followed by the end of input or by a
\* character that is not a letter, digit, underscore or '.': 0x/0X with hex
\* digits yields one HEX token; '0' and digits below 8 one OCT token; that
\* octal run with '.' and a digit one FLOAT token; '0' and digits with an 8
\* or 9 one ILLEGAL_OCT error and no token; a digit run (or an empty run
\* before a leading '.') with a decimal point and/or exponent one FLOAT
\* token; any other digit run one INT token.
C5_AnyDigitRunFloat == [][NumericRule(TRUE)]_vars

\* C5, amended: the same, where the digit run of the FLOAT rule does not
\* begin with '0' followed by another digit, unless it is the octal run
\* followed by '.' and a digit.
C5_NumericClassification == [][NumericRule(FALSE)]_vars

\* '07.5' has been scanned to one FLOAT token and nothing else
C5_Witness ==
  /\ src = <<"0", "7", ".", "5">>
  /\ pc = "done"
  /\ Values(tokens) = << src >>
  /\ tokens[1].code = 52
  /\ errors = <<>>

(***************************************************************************)
(* C6.  Digit-initial identifiers.                                         *)
(***************************************************************************)
\* C6: when the source at the dispatch position is a run of letters, digits
\* and underscores that starts with a digit and has a letter in an invalid
\* way ('1abc'), the scanner consumes the whole run, records exactly one
\* ILLEGAL_ID error whose offending text is the run, emits no token and
\* goes on scanning.
C6_IllegalIdRecovery ==
  [][ (Dispatching /\ IsNumStart /\ PreScanIllegalId(DCur)) =>
        /\ FailsWith("ILLEGAL_ID")
        /\ errors'[Len(errors')].value = PreScanRun(DCur)
        /\ pos' = DCur.pos + Len(PreScanRun(DCur))
        /\ pc' = "loop" ]_vars

(***************************************************************************)
(* C7.  The terminator.                                                    *)
(***************************************************************************)
\* C7: once tokenize consumes a '#' as a delimiter token the driver loop
\* stops immediately: the '#' token is the last element of the token list,
\* the cursor stays just past the '#' even when source text remains, and
\* nothing is appended after the loop has stopped.
C7_Terminator ==
  [][ /\ (Dispatching /\ IsDelimStart /\ DCh = "#") =>
           /\ pc' = "done"
           /\ tokens' = Append(tokens, Token(137, <<"#">>, NoAttr,
                                             LineOf(DCur.pos), ColOf(DCur.pos)))
           /\ errors' = errors
           /\ pos' = DCur.pos + 1
      /\ pc = "done" => UNCHANGED <<tokens, errors, pos>> ]_vars

\* 'x;#y;' has been scanned to x, ';', '#' and the call has returned with
\* the cursor before 'y'
C7_Witness ==
  /\ src = <<"x", ";", "#", "y", ";">>
  /\ pc = "done"
  /\ calls = 1
  /\ Values(tokens) = << <<"x">>, <<";">>, <<"#">> >>
  /\ errors = <<>>
  /\ pos = 3

(***************************************************************************)
(* C8.  Unclosed strings.                                                  *)
(***************************************************************************)
\* the number of backslashes in a row that end just before s[k]
RECURSIVE BackslashesBefore(_, _)
BackslashesBefore(s, k) ==
  IF k > 1 /\ s[k - 1] = "\\" THEN 1 + BackslashesBefore(s, k - 1) ELSE 0

\* s[k] is escaped: an odd number of backslashes stands before it
IsEscaped(s, k) == BackslashesBefore(s, k) % 2 = 1

\* the index of the first newline at or after index p, or the end of input
LineEndFrom(p) ==
  LET nl == {k \in p..(Len(src) - 1) : src[k + 1] = "\n"}
  IN  IF nl = {} THEN Len(src) ELSE CHOOSE k \in nl : \A j \in nl : k <= j

\* the string literal opening at index p has no unescaped closing quote
\* before the next newline or the end of input
UnclosedStringAt(p) ==
  LET rest == Slice(p + 1, LineEndFrom(p + 1))
  IN  \A k \in 1..Len(rest) : rest[k] = "\"" => IsEscaped(rest, k)

\* C8: when the opening quote of a string literal is not followed by an
\* unescaped closing quote before the next newline or the end of input,
\* _scan_string records exactly one UNCLOSED_STRING error whose offending
\* text is the raw text collected so far, emits no STRING token, adds
\* nothing to the constant table and leaves the cursor on the newline or at
\* the end of input.
C8_UnclosedString ==
  [][ (Dispatching /\ IsStrStart /\ UnclosedStringAt(DCur.pos)) =>
        LET end   == LineEndFrom(DCur.pos + 1)
            added == SubSeq(errors', Len(errors) + 1, Len(errors'))
        IN  /\ tokens' = tokens
            /\ const_table' = const_table
            /\ pos' = end
            /\ SubSeq(errors', 1, Len(errors)) = errors
            /\ Cardinality({k \in 1..Len(added) :
                              added[k].error_type = "UNCLOSED_STRING"}) = 1
            /\ added[Len(added)] =
                 LexError("UNCLOSED_STRING", LineOf(DCur.pos), ColOf(DCur.pos),
                          Slice(DCur.pos, end), "") ]_vars

TokenCodes == {p[2] : p \in CodePairs}

\* C10: in every reachable state every element of the token list is a
\* token, its (line, column) is the position where its lexeme starts, the
\* source text there equals the lexeme character for character, and
\* consecutive tokens take strictly increasing, non-overlapping ranges.
C10_TokensInSourceOrder ==
  \A i \in 1..Len(tokens) :
    LET t == tokens[i]
    IN  /\ t.code \in TokenCodes
        /\ Len(t.value) >= 1
        /\ HasPos(t.line, t.col)
        /\ EndOf(t) <= pos
        /\ Slice(StartOf(t), EndOf(t)) = t.value
        /\ i > 1 => /\ EndOf(tokens[i - 1]) <= StartOf(t)
                    /\ StartOf(tokens[i - 1]) < StartOf(t)

\* two tokens on two lines
C10_Witness ==
  /\ pc = "done"
  /\ Len(tokens) = 2
  /\ tokens[1].line = 1
  /\ tokens[2].line = 2
  /\ tokens[2].col = 1

(***************************************************************************)
(* C11.  Unclosed block comments.                                          *)
(***************************************************************************)
\* no '*/' begins at or after index p
NoCommentEndFrom(p) ==
  ~ \E k \in p..(Len(src) - 2) : src[k + 1] = "*" /\ src[k + 2] = "/"

\* the driver meets '/*' after the whitespace, and no '*/' follows it
UnclosedCommentDispatch ==
  /\ InLoop
  /\ ~AfterWs.raised
  /\ DCh = "/" /\ Peek(DCur, 1) = "*"
  /\ NoCommentEndFrom(DCur.pos + 2)

HasUnclosedComment(errs) ==
  \E i \in 1..Len(errs) : errs[i].error_type = "UNCLOSED_COMMENT"

\* C11: if a '/*' met by the driver has no later '*/', the iteration records
\* exactly one UNCLOSED_COMMENT error at the (line, column) of the opening
\* '/', consumes the input to its end and appends no token; after that
\* error no token and no error is ever appended, so a scan holds at most one
\* UNCLOSED_COMMENT error and it is the last entry of the error list.
C11_UnclosedComment ==
  [][ /\ UnclosedCommentDispatch =>
           /\ tokens' = tokens
           /\ Len(errors') = Len(errors) + 1
           /\ SubSeq(errors', 1, Len(errors)) = errors
           /\ errors'[Len(errors')].error_type = "UNCLOSED_COMMENT"
           /\ errors'[Len(errors')].line = LineOf(DCur.pos)
           /\ errors'[Len(errors')].col = ColOf(DCur.pos)
           /\ pos' = Len(src)
      /\ HasUnclosedComment(errors) => UNCHANGED <<tokens, errors>>
      /\ \A i \in 1..Len(errors') :
           errors'[i].error_type = "UNCLOSED_COMMENT" => i = Len(errors') ]_vars

\* an identifier, then a comment that is never closed: the call has returned
\* with the one error, anchored at the '/' in column 2
C11_Witness ==
  /\ pc = "done"
  /\ Len(src) = 3
  /\ pos = Len(src)
  /\ Len(tokens) = 1
  /\ errors = << LexError("UNCLOSED_COMMENT", 1, 2, <<"/", "*">>, "") >>

(***************************************************************************)
(* C12.  Errors are anchored where their offending text starts.            *)
(***************************************************************************)
\* error e carries a (line, column) of the text, and the source from there
\* on starts with its offending text
AnchoredAtText(e) ==
  /\ HasPos(e.line, e.col)
  /\ IsPrefixAt(e.value, PosOf(e.line, e.col))

\* C12: every LexError appended during a scan, of every kind, carries the
\* (line, column) at which its offending construct started, so that the
\* source text beginning at that (line, column) starts with the error's raw
\* offending text.
C12_ErrorAnchoring == \A i \in 1..Len(errors) : AnchoredAtText(errors[i])

(***************************************************************************)
(* C13.  A token or errors.                                                *)
(***************************************************************************)
\* what an iteration appended to a list
Added(before, after) == SubSeq(after, Len(before) + 1, Len(after))

\* the iteration only appends to the two lists
OnlyAppends ==
  /\ Len(tokens') >= Len(tokens) /\ SubSeq(tokens', 1, Len(tokens)) = tokens
  /\ Len(errors') >= Len(errors) /\ SubSeq(errors', 1, Len(errors)) = errors

\* an iteration that dispatched to a sub-scan, which returned, appends one
\* token and no error, or errors and no token; with escapes, it may also
\* append ILLEGAL_ESCAPE errors together with the one STRING/CHAR token
TokenOrErrors(escapes) ==
  (Dispatching /\ pc' # "raised") =>
    LET toks == Added(tokens, tokens')
        errs == Added(errors, errors')
    IN  /\ OnlyAppends
        /\ \/ Len(toks) = 1 /\ errs = <<>>
           \/ toks = <<>> /\ Len(errs) >= 1
           \/ /\ escapes
              /\ Len(toks) = 1 /\ toks[1].code \in {53, 54}
              /\ Len(errs) >= 1
              /\ \A k \in 1..Len(errs) : errs[k].error_type = "ILLEGAL_ESCAPE"

NoQuoteOnLine(p) == "'" \notin Range(Slice(p + 1, LineEndFrom(p + 1)))

\* C14: after _scan_char has consumed the opening quote, if a newline or
\* the end of input is reached before a closing quote the outcome is an
\* UNCLOSED_CHAR error and no CHAR token; _scan_char never consumes a
\* newline, so no CHAR token's lexeme and no MULTI_CHAR error's offending
\* text holds a newline, also when a backslash is the last character of the
\* line.  (The escape \x without a hex digit ends the literal with its
\* ILLEGAL_ESCAPE error; that outcome is let pass here.)
C14_CharWithinLine ==
  [][ (Dispatching /\ IsCharStart /\ pc' # "raised") =>
        /\ pos' <= LineEndFrom(DCur.pos + 1)
        /\ NoQuoteOnLine(DCur.pos) =>
             /\ tokens' = tokens
             /\ Len(errors') > Len(errors)
             /\ errors'[Len(errors')].error_type
                  \in {"UNCLOSED_CHAR", "ILLEGAL_ESCAPE"}
        /\ \A i \in 1..Len(tokens') :
             tokens'[i].code = 53 => "\n" \notin Range(tokens'[i].value)
        /\ \A i \in 1..Len(errors') :
             errors'[i].error_type = "MULTI_CHAR"
               => "\n" \notin Range(errors'[i].value) ]_vars

(***************************************************************************)
(* C15.  Octal escapes.                                                    *)
(***************************************************************************)
\* the text at index p up to index r is: the quote q, a backslash, a decimal
\* digit, up to two more digits below 8, the quote q
IsOctalEscapeLit(p, r, q) ==
  /\ r <= Len(src)
  /\ r - p \in 4..6
  /\ src[p + 1] = q /\ src[p + 2] = "\\" /\ src[r] = q
  /\ src[p + 3] \in Digits
  /\ AllIn(Slice(p + 3, r - 1), OctDigits)

\* C15: inside a character or string literal a backslash followed by any
\* decimal digit starts an octal escape: the digit and up to two following
\* digits below 8 are one logical character; so for every character literal
\* of the form quote, backslash, one to three such digits, quote, tokenize
\* emits exactly one CHAR token whose lexeme is the whole literal and
\* records no error, and the same escape in a closed string literal records
\* no error.
C15_OctalEscape ==
  [][ Dispatching =>
        \A r \in (DCur.pos + 4)..(DCur.pos + 6) :
          /\ IsOctalEscapeLit(DCur.pos, r, "'")
               => EmitsOnly(53, Slice(DCur.pos, r), r)
          /\ IsOctalEscapeLit(DCur.pos, r, "\"")
               => EmitsOnly(54, Slice(DCur.pos, r), r) ]_vars

(***************************************************************************)
(* C16.  No letter right after a number.                                   *)
(***************************************************************************)
\* the character right after token t, None at the end of input
CharAfter(t) == IF EndOf(t) < Len(src) THEN src[EndOf(t) + 1] ELSE None

\* no token of a code in codes is directly followed by a character of S
NeverFollowedBy(codes, S) ==
  \A i \in 1..Len(tokens) :
    tokens[i].code \in codes => CharAfter(tokens[i]) \notin S

\* C16, as claimed: whenever tokenize emits an INT, FLOAT, HEX or OCT token,
\* the source character immediately after the token's lexeme is not a
\* letter and not an underscore.
C16_EveryNumericKind == NeverFollowedBy({51, 52, 55, 56}, Letters \cup {"_"})

\* C16, amended: the character immediately after an INT or FLOAT token is
\* not a letter and not an underscore; the one after an OCT token is not a
\* letter; the one after a HEX token is not a hex digit.
C16_LetterSuffix ==
  /\ NeverFollowedBy({51, 52}, Letters \cup {"_"})
  /\ NeverFollowedBy({56}, Letters)
  /\ NeverFollowedBy({55}, HexDigits)

\* '07_' has been scanned to the OCT token 07 and the identifier _
C16_Witness ==
  /\ src = <<"0", "7", "_">>
  /\ pc = "done"
  /\ Values(tokens) = << <<"0", "7">>, <<"_">> >>
  /\ tokens[1].code = 56
  /\ errors = <<>>

(***************************************************************************)
(* C17.  The cursor.                                                       *)
(***************************************************************************)
\* the cursor that stands at index p of the text
CursorAt(p) == Cursor(p, LineOf(p), ColOf(p))

\* _advance, _char and _peek at every index of the text
CursorOperations ==
  \A p \in 0..Len(src) :
    IF p < Len(src)
      THEN /\ Advance(CursorAt(p)) = CursorAt(p + 1)
           /\ Char(CursorAt(p)) = src[p + 1]
           /\ Peek(CursorAt(p), 0) = src[p + 1]
      ELSE /\ Advance(CursorAt(p)) = CursorAt(p)
           /\ Char(CursorAt(p)) = None
           /\ \A k \in 0..2 : Peek(CursorAt(p), k) = None

\* pos is within the text, and line and col are those of pos
CursorInText ==
  /\ 0 <= pos /\ pos <= Len(src)
  /\ line = LineOf(pos)
  /\ col = ColOf(pos)

\* C17: in every reachable state 0 <= pos <= len(source), pos never
\* decreases, line is 1 + the number of newlines in source[0:pos] and col is
\* 1 + the number of characters consumed since the last consumed newline
\* (or the start); each _advance at pos < len(source) increases pos by
\* exactly 1, and at the end of input _advance, _char and _peek change
\* nothing and yield the end-of-input sentinel.
C17_CursorInvariant ==
  [][ /\ CursorInText /\ CursorInText'
      /\ CursorOperations
      /\ pos' >= pos ]_vars

\* the cursor stands on the second line, past a character of it, in the
\* middle of the text
C17_Witness ==
  /\ pc = "loop"
  /\ line = 2
  /\ col = 2
  /\ pos < Len(src)

(***************************************************************************)
(* C18.  The outputs are append-only.                                      *)
(***************************************************************************)
IsPrefix(s, t) == Len(s) <= Len(t) /\ SubSeq(t, 1, Len(s)) = s

\* C18: the token list, the error list, the identifier table and the
\* constant table are empty at construction, and across every step of a
\* scan the previous value of each is a prefix of its next value: entries
\* are only appended, never removed, reordered or modified, so the indexes
\* handed out in 'SYM:n' and 'CONST:n' attributes stay valid.
C18_AppendOnly ==
  [][ /\ pc = "init" =>
           tokens = <<>> /\ errors = <<>>
             /\ sym_table = <<>> /\ const_table = <<>>
      /\ IsPrefix(tokens, tokens')
      /\ IsPrefix(errors, errors')
      /\ IsPrefix(sym_table, sym_table')
      /\ IsPrefix(const_table, const_table')
      /\ \A i \in 1..Len(tokens) :
           /\ tokens[i].code = 50
                => sym_table'[tokens[i].attr[2] + 1] = tokens[i].value
           /\ tokens[i].code \in ConstCodes
                => const_table'[tokens[i].attr[2] + 1] = tokens[i].value ]_vars

\* a second identifier has been entered after the first: two entries, in
\* the order of the two ID tokens
C18_Witness ==
  /\ pc = "done"
  /\ Len(sym_table) = 2
  /\ Len(tokens) = 3
  /\ sym_table = << tokens[1].value, tokens[3].value >>

(***************************************************************************)
(* C19.  Keywords and identifiers.                                         *)
(***************************************************************************)
\* the index just past the maximal run of letters, digits and underscores
\* that starts at index p
RunEnd(p) ==
  CHOOSE q \in p..Len(src) :
    /\ AllIn(Slice(p, q), IdChars)
    /\ q = Len(src) \/ src[q + 1] \notin IdChars

\* C19: for a maximal run of letters, digits and underscores that starts
\* with a letter or underscore, _scan_id emits a keyword token iff the run
\* lower-cased is one of the 21 keywords; that token keeps the run in its
\* original case, has attribute '-' and the keyword's code, and leaves the
\* identifier table unchanged; otherwise _scan_id emits an ID token, the
\* identifiers being compared case-sensitively; in every reachable state no
\* entry of the identifier table is a keyword when lower-cased.
C19_KeywordMatching ==
  [][ /\ Cardinality(KEYWORDS) = 21
      /\ (Dispatching /\ IsIdStart) =>
           LET run == Slice(DCur.pos, RunEnd(DCur.pos))
               new == tokens'[Len(tokens')]
           IN  /\ Len(tokens') = Len(tokens) + 1
               /\ SubSeq(tokens', 1, Len(tokens)) = tokens
               /\ errors' = errors
               /\ pos' = RunEnd(DCur.pos)
               /\ new.value = run
               /\ new.line = LineOf(DCur.pos) /\ new.col = ColOf(DCur.pos)
               /\ IF Lower(run) \in KEYWORDS
                    THEN /\ new.code = CODE(Lower(run))
                         /\ new.code \in 1..21
                         /\ new.attr = NoAttr
                         /\ sym_table' = sym_table
                    ELSE /\ new.code = 50
                         /\ sym_table' = IF run \in Range(sym_table)
                                           THEN sym_table
                                           ELSE Append(sym_table, run)
                         /\ new.attr = SymAttr(IndexOf(sym_table', run))
      /\ \A i \in 1..Len(sym_table') :
           Lower(sym_table'[i]) \notin KEYWORDS ]_vars

\* 'int INT x X x;' has been scanned: INT is the keyword int in its own
\* case, and x and X are two identifiers
C19_Witness ==
  /\ pc = "done"
  /\ Len(tokens) = 6
  /\ tokens[2].value = <<"I", "N", "T">>
  /\ tokens[2].code = 6
  /\ tokens[2].attr = NoAttr
  /\ sym_table = << <<"x">>, <<"X">> >>
  /\ tokens[5].attr = tokens[3].attr

(***************************************************************************)
(* C20.  An illegal escape does not end the literal.                       *)
(***************************************************************************)
\* ch, the character after a backslash, makes an illegal escape: it is not
\* in the escape table, not 'x' and not a digit; anyChar tells whether a
\* newline counts as such a character
IsIllegalEscapeChar(ch, anyChar) ==
  /\ ch # None
  /\ ch \notin ESCAPE_CHARS \cup {"x"} \cup Digits
  /\ anyChar \/ ch # "\n"

\* the index in body of the first double quote that is not escaped, 0 if
\* there is none
ClosingQuote(body) ==
  LET qs == {k \in 1..Len(body) : body[k] = "\"" /\ ~IsEscaped(body, k)}
  IN  IF qs = {} THEN 0 ELSE CHOOSE k \in qs : \A j \in qs : k <= j

\* the illegal escapes of the text lit from index j on, as offending texts;
\* after is the character that follows lit in the source
RECURSIVE IllegalEscapes(_, _, _, _)
IllegalEscapes(lit, j, after, anyChar) ==
  IF j > Len(lit) THEN <<>>
  ELSE LET ch == IF j < Len(lit) THEN lit[j + 1] ELSE after
       IN  IF lit[j] = "\\" /\ ~IsEscaped(lit, j)
                /\ IsIllegalEscapeChar(ch, anyChar)
             THEN << <<"\\", ch>> >> \o IllegalEscapes(lit, j + 1, after, anyChar)
             ELSE IllegalEscapes(lit, j + 1, after, anyChar)

\* the offending texts of the ILLEGAL_ESCAPE errors of errs that are not
\* those of an \x without hex digits
RECURSIVE EscapeErrors(_)
EscapeErrors(errs) ==
  IF errs = <<>> THEN <<>>
  ELSE LET e == Head(errs)
       IN  IF e.error_type = "ILLEGAL_ESCAPE" /\ e.value[Len(e.value)] # "x"
             THEN <<e.value>> \o EscapeErrors(Tail(errs))
             ELSE EscapeErrors(Tail(errs))

\* the iteration appends one token of code kind and lexeme s, entered in
\* the constant table, and leaves the cursor at q
EmitsConstant(kind, s, q) ==
  LET new == tokens'[Len(tokens')]
  IN  /\ Len(tokens') = Len(tokens) + 1
      /\ new.code = kind /\ new.value = s
      /\ new.attr[1] = "CONST"
      /\ new.attr[2] + 1 \in 1..Len(const_table')
      /\ const_table'[new.attr[2] + 1] = s
      /\ pos' = q

\* the scan of a string literal: one ILLEGAL_ESCAPE error for each illegal
\* escape in it, and the STRING token when it is closed on its line
StringEscapeRule(anyChar) ==
  (Dispatching /\ IsStrStart /\ pc' # "raised") =>
    LET p     == DCur.pos
        end   == LineEndFrom(p + 1)
        body  == Slice(p + 1, end)
        k     == ClosingQuote(body)
        lit   == IF k = 0 THEN body ELSE SubSeq(body, 1, k - 1)
        after == IF k # 0 THEN "\""
                 ELSE IF end < Len(src) THEN src[end + 1] ELSE None
    IN  /\ EscapeErrors(Added(errors, errors'))
             = IllegalEscapes(lit, 1, after, anyChar)
        /\ k # 0 => EmitsConstant(54, Slice(p, p + k + 1), p + k + 1)

\* the scan of a character literal whose character is an illegal escape:
\* its one ILLEGAL_ESCAPE error, then the outcome of the literal with the
\* escaped character as its character
CharEscapeRule(anyChar) ==
  ( /\ Dispatching /\ IsCharStart /\ pc' # "raised"
    /\ Peek(DCur, 1) = "\\"
    /\ IsIllegalEscapeChar(Peek(DCur, 2), anyChar) ) =>
    LET p    == DCur.pos
        errs == Added(errors, errors')
    IN  /\ EscapeErrors(errs) = << <<"\\", Peek(DCur, 2)>> >>
        /\ errs[1].error_type = "ILLEGAL_ESCAPE"
        /\ IF Peek(DCur, 3) = "'"
             THEN /\ Len(errs) = 1
                  /\ Peek(DCur, 2) # "\n"
                       => EmitsConstant(53, Slice(p, p + 4), p + 4)
             ELSE /\ tokens' = tokens
                  /\ Len(errs) = 2
                  /\ errs[2].error_type \in {"MULTI_CHAR", "UNCLOSED_CHAR"}

DigitRunEnd(p) ==
  CHOOSE q \in p..Len(src) :
    /\ AllIn(Slice(p, q), Digits)
    /\ q = Len(src) \/ src[q + 1] \notin Digits

\* the driver dispatches a digit to the decimal scan, and the digit run is
\* directly followed by two dots
DotDotDispatch ==
  /\ Dispatching /\ IsNumStart
  /\ ~(DCh = "0" /\ Peek(DCur, 1) \in {"x", "X"} \cup Digits)
  /\ IsPrefixAt(<<".", ".">>, DigitRunEnd(DCur.pos))

\* C21: when a non-empty digit run scanned by the decimal path is directly
\* followed by two dots, the number scanner emits an INT token for the
\* digit run alone, consumes neither dot and records no error; the cursor
\* is left on the first '.', which the driver then handles by its ordinary
\* dispatch: a '.' before a '.' is the delimiter, so no ILLEGAL_FLOAT error
\* comes of the two dots.
C21_DotDotBoundary ==
  [][ /\ DotDotDispatch =>
           LET q == DigitRunEnd(DCur.pos)
           IN  /\ EmitsConstant(51, Slice(DCur.pos, q), q)
               /\ tokens'[Len(tokens')].line = LineOf(DCur.pos)
               /\ tokens'[Len(tokens')].col = ColOf(DCur.pos)
               /\ SubSeq(tokens', 1, Len(tokens)) = tokens
               /\ errors' = errors
               /\ pc' = "loop"
      /\ (Dispatching /\ DCh = "." /\ Peek(DCur, 1) = ".") =>
           /\ tokens' = Append(tokens, Token(140, <<".">>, NoAttr,
                                             LineOf(DCur.pos), ColOf(DCur.pos)))
           /\ errors' = errors
           /\ pos' = DCur.pos + 1 ]_vars

\* '1..2' has been scanned to INT 1, the delimiter '.' and FLOAT .2, with
\* no error
C21_Witness ==
  /\ src = <<"1", ".", ".", "2">>
  /\ pc = "done"
  /\ Values(tokens) = << <<"1">>, <<".">>, <<".", "2">> >>
  /\ tokens[1].code = 51 /\ tokens[2].code = 140 /\ tokens[3].code = 52
  /\ errors = <<>>

(***************************************************************************)
(* C22.  A second call of tokenize.                                        *)
(***************************************************************************)
\* C22: after a first call of tokenize has returned, a second call on the
\* same instance leaves the cursor, the token list, the error list and both
\* tables unchanged and so returns the same (tokens, errors), whether the
\* first call ended at the end of input or at a '#' with source text
\* remaining.
C22_Idempotent ==
  [][ calls' >= 2 =>
        UNCHANGED <<pos, line, col, tokens, errors,
                    sym_table, const_table>> ]_vars

====
